---------------------------- MODULE Spec2Model ----------------------------
(***************************************************************************)
(* A model of the PyMoira client: the packet codec of protocol.py (Packet  *)
(* .build / Packet.parse) and the connection state machine of client.py    *)
(* (MoiraClient: challenge, checkMOTD, setVersion, authenticate, query).   *)
(*                                                                         *)
(* Strings are sequences of byte values (0..255).  Exceptions are records  *)
(* whose "err" field is the name of the raised class.  client.py names the *)
(* classes of errors.py with a "Moira" prefix (MoiraConnectionError is     *)
(* ConnectionError); the model uses the names of errors.py.                *)
(***************************************************************************)
EXTENDS Integers, Sequences, FiniteSets, TLC

(***************************************************************************)
(* Bounds of the model.                                                    *)
(***************************************************************************)
\* the largest number of fields of an encoded packet
MaxFields == 2
\* the largest total number of payload bytes of an encoded packet
MaxBytes == 4
\* the largest number of "more data" frames the server writes in one answer
MaxRows == 2
\* the largest number of calls made on an opened connection
MaxCalls == 2
\* the largest number of bytes of a next frame that follow a frame
MaxExtra == 3
\* the largest number of explicit members the server gives a list
MaxMembers == 2
\* a scaled-down ceiling of the expansion depth
SmallDepth == 2

(***************************************************************************)
(* protocol.py: constants and byte utilities.                              *)
(***************************************************************************)
MOIRA_PROTOCOL_VERSION == 2

\* struct.pack("!I", n): four bytes, network byte order (n < 2^31 here)
FmtU32(n) ==
    << (n \div 16777216) % 256, (n \div 65536) % 256, (n \div 256) % 256, n % 256 >>

\* struct.unpack("!I", s[0:4]) (values below 2^31: the first byte is < 128)
ReadU32(s) ==
    s[1] * 16777216 + s[2] * 65536 + s[3] * 256 + s[4]

\* struct.pack("!i", n): two's complement, network byte order
FmtI32(n) ==
    IF n >= 0 THEN FmtU32(n)
    ELSE LET m == n + 2147483647 + 1
         IN  << 128 + (m \div 16777216), (m \div 65536) % 256, (m \div 256) % 256, m % 256 >>

\* struct.unpack("!i", s[0:4])
ReadI32(s) ==
    IF s[1] >= 128
    THEN (s[1] - 256) * 16777216 + s[2] * 65536 + s[3] * 256 + s[4]
    ELSE ReadU32(s)

\* Python slices s[:n] and s[n:]
Take(s, n) == SubSeq(s, 1, IF n < Len(s) THEN n ELSE Len(s))
Drop(s, n) == SubSeq(s, (IF n < Len(s) THEN n ELSE Len(s)) + 1, Len(s))

Zeros(n) == [i \in 1..n |-> 0]

\* while len(item) % 4 != 0: item += "\0"
PadItem_NoPad(item) == item
PadItem(item) ==
    IF Len(item) % 4 = 0 THEN item ELSE item \o Zeros(4 - (Len(item) % 4))

\* the loop body of Packet.build: terminator, length prefix, padding
BuildField(item0) ==
    LET item == Append(item0, 0)
    IN  FmtU32(Len(item)) \o PadItem(item)

RECURSIVE BuildBody(_)
BuildBody(data) ==
    IF data = << >> THEN << >>
    ELSE BuildField(Head(data)) \o BuildBody(Tail(data))

\* Packet.build
Build(opcode, data) ==
    LET body == BuildBody(data)
    IN  FmtU32(16 + Len(body)) \o FmtU32(MOIRA_PROTOCOL_VERSION)
          \o FmtI32(opcode) \o FmtU32(Len(data)) \o body

\* str.rstrip("\0"): every trailing zero byte is removed
RECURSIVE RStrip(_)
RStrip_Keep(s) == s
RStrip_FirstZero(s) ==
    IF \E i \in 1..Len(s) : s[i] = 0
    THEN SubSeq(s, 1, (CHOOSE i \in 1..Len(s) : s[i] = 0 /\ \A j \in 1..(i-1) : s[j] # 0) - 1)
    ELSE s
RStrip(s) ==
    IF s # << >> /\ s[Len(s)] = 0 THEN RStrip(SubSeq(s, 1, Len(s) - 1)) ELSE s

\* the exception classes of errors.py, as values
ConnectionError == [err |-> "ConnectionError"]
StructError     == [err |-> "struct.error"]

\* the padded extent of a field of declared length field_len
ActualLen(field_len) ==
    IF field_len % 4 = 0 THEN field_len ELSE field_len + (4 - (field_len % 4))

\* the field loop of Packet.parse and the check that follows it
RECURSIVE ParseFields(_, _, _)
ParseFields(body, argc, fields) ==
    IF argc = 0
    THEN IF Len(body) > 0 THEN ConnectionError
         ELSE [err |-> "none", data |-> fields]
    ELSE IF Len(body) < 4 THEN ConnectionError
    ELSE LET field_len == ReadU32(body)
         IN  IF field_len + 4 > Len(body) THEN ConnectionError
             ELSE LET body4 == Drop(body, 4)
                      field == RStrip(Take(body4, ActualLen(field_len)))
                  IN  ParseFields(Drop(body4, ActualLen(field_len)), argc - 1,
                                  Append(fields, field))

\* Packet.parse: the packet (err = "none") or the exception raised
Parse_NoHeaderChecks(orig) ==
    IF Len(orig) < 16 THEN StructError
    ELSE LET status == ReadI32(SubSeq(orig, 9, 12))
             argc   == ReadU32(SubSeq(orig, 13, 16))
             r      == ParseFields(Drop(orig, 16), argc, << >>)
         IN  IF r.err # "none" THEN r
             ELSE [err |-> "none", raw_len |-> ReadU32(SubSeq(orig, 1, 4)),
                   opcode |-> status, data |-> r.data]
Parse(orig) ==
    IF Len(orig) < 16 THEN StructError
    ELSE LET length  == ReadU32(SubSeq(orig, 1, 4))
             version == ReadU32(SubSeq(orig, 5, 8))
             status  == ReadI32(SubSeq(orig, 9, 12))
             argc    == ReadU32(SubSeq(orig, 13, 16))
         IN  IF length % 4 # 0 THEN ConnectionError
             ELSE IF version # 2 THEN ConnectionError
             ELSE LET r == ParseFields(Drop(orig, 16), argc, << >>)
                  IN  IF r.err # "none" THEN r
                      ELSE [err |-> "none", raw_len |-> length,
                            opcode |-> status, data |-> r.data]


(***************************************************************************)
(* Status and operation codes (constants.py of the repository; the client  *)
(* only compares them for equality and writes them into frames).           *)
(***************************************************************************)
MR_SUCCESS     == 0
MR_QUERY       == 3
MR_MOTD        == 6
MR_SETVERSION  == 8
MR_KRB5_AUTH   == 9
MR_PERM        == 47836428
MR_MORE_DATA   == 47836458
MR_VERSION_LOW == 47836481

MOIRA_QUERY_VERSION == 14
MOIRA_MAX_LIST_DEPTH == 3072

MOIRA_PROTOCOL_CHALLENGE ==
    << 0, 0, 0, 54, 0, 0, 0, 4, 1, 1, 1, 1, 115, 101, 114, 118, 101, 114,
       95, 105, 100, 0, 112, 97, 114, 109, 115, 0, 104, 111, 115, 116, 0,
       117, 115, 101, 114, 0, 0, 0, 0, 1, 0, 0, 0, 0, 1, 0, 0, 0, 0, 1, 0,
       0, 0, 0, 1, 0 >>

MOIRA_PROTOCOL_RESPONSE ==
    << 0, 0, 0, 49, 0, 0, 0, 3, 0, 1, 1, 100, 105, 115, 112, 111, 115, 105,
       116, 105, 111, 110, 0, 115, 101, 114, 118, 101, 114, 95, 105, 100, 0,
       112, 97, 114, 109, 115, 0, 0, 0, 0, 1, 0, 0, 0, 1, 0, 0, 0, 0, 1, 0 >>

\* "PyMoira"
MOIRA_CLIENT_IDSTRING == << 80, 121, 77, 111, 105, 114, 97 >>

\* "Moira server is currently unavaliable: "
UnavailablePrefix ==
    << 77, 111, 105, 114, 97, 32, 115, 101, 114, 118, 101, 114, 32, 105,
       115, 32, 99, 117, 114, 114, 101, 110, 116, 108, 121, 32, 117, 110,
       97, 118, 97, 108, 105, 97, 98, 108, 101, 58, 32 >>

(***************************************************************************)
(* State.                                                                  *)
(***************************************************************************)
VARIABLES
    \* the codec bench: one Packet object that is built, possibly damaged on
    \* the wire, and parsed
    cphase,      \* "off" | "input" | "built" | "wire" | "parsed"
    pkt,         \* the Packet that is built: [opcode, data]
    raw,         \* Packet.raw: the bytes built, or the bytes that arrived
    damaged,     \* whether raw was changed after it was built
    parsed,      \* what Packet.parse(raw) gave: a packet or an exception
    \* the MoiraClient object and its socket
    conn,        \* "off" | "none" | "opening" | "ready" | "failed"
    version,     \* self.version (-1 before line 70 runs, 0 for None)
    sent,        \* every byte string written to the socket, in order
    \* the callers of the object's methods
    pc,          \* where each caller is: "idle" or the receive it blocks in
    op,          \* the call each caller is in
    response,    \* challenge(): the bytes received as the reply
    result,      \* the Packet last returned by recvPacket to each caller
    rows,        \* query(): the list "result"
    motd,        \* checkMOTD(): the string "motd"
    ret,         \* how each caller's last call ended
    calls,       \* the calls made on the ready object, in order: who called
                 \* what, how many frames had been sent before, and how the
                 \* caller's previous call had ended
    \* the server
    outstanding, \* the requests it has not answered with a terminal frame
    emitted,     \* the "more data" frames it wrote for the oldest of them
    eof,         \* whether it has closed the stream
    replied,     \* the frames it wrote since the last request was sent
    owner,       \* for each request of outstanding, the caller that sent it
    handed       \* for each caller, whose request the frame it last received
                 \* answered ("none" before it received one)

VARIABLES
    \* the receive bench: one call of recvPacket() on a socket
    rphase,      \* "off" | "length" | "remainder" | "done"
    stream,      \* the bytes the peer writes before it closes the stream
    pos,         \* how many of them socket.recv has handed out
    recv_data,   \* recv(): the string "data"
    length_data, \* recvPacket(): the string "length_data"
    received     \* what recvPacket() returned or raised

VARIABLES
    \* lists.py: one call of List.getAllMembers (client side), by itself or
    \* inside ListTracer.__init__, and the ListTracer it leaves
    lphase,        \* "off" | "idle" | "expanding" | "returned" | "raised" | "tracer"
    answer,        \* the server: what it answers to the member query of each list
    args,          \* the arguments of the call
    members,       \* getAllMembers: "members"
    denied,        \* getAllMembers: "denied"
    known,         \* getAllMembers: "known" (a dictionary: a function of its keys)
    to_expand,     \* getAllMembers: "to_expand"
    pending,       \* the names of to_expand the for loop has yet to visit
    current_depth, \* getAllMembers: "current_depth"
    max_depth,     \* getAllMembers: "max_depth"
    lret,          \* what getAllMembers returned or raised
    queries,       \* the member queries issued, in order
    inverse,       \* ListTracer: self.inverse
    inverseLists,  \* ListTracer: self.inverseLists
    max_pathways,  \* ListTracer: self.max_pathways
    traced,        \* the argument of the last trace() call
    pathways       \* what the last trace() call returned or raised

codecVars == << cphase, pkt, raw, damaged, parsed >>
connVars  == << conn, version, sent, pc, op, response, result, rows, motd, ret,
                calls, outstanding, emitted, eof, replied, owner, handed >>
recvVars  == << rphase, stream, pos, recv_data, length_data, received >>
listVars  == << lphase, answer, args, members, denied, known, to_expand, pending,
                current_depth, max_depth, lret, queries, inverse,
                inverseLists, max_pathways, traced, pathways >>
vars      == << codecVars, connVars, recvVars, listVars >>

NoPacket == [err |-> "unset"]
NoExc    == [err |-> "none"]

RecvOff ==
    /\ rphase = "off"
    /\ stream = << >>
    /\ pos = 0
    /\ recv_data = << >>
    /\ length_data = << >>
    /\ received = NoPacket

NoArgs == [server_side |-> FALSE, include_lists |-> FALSE, tags |-> FALSE,
           tracer |-> FALSE]

ListsOff ==
    /\ lphase = "off"
    /\ answer = << >>
    /\ args = NoArgs
    /\ members = {} /\ denied = {} /\ known = << >>
    /\ to_expand = {} /\ pending = {}
    /\ current_depth = 0 /\ max_depth = 0
    /\ lret = NoExc
    /\ queries = << >>
    /\ inverse = << >> /\ inverseLists = << >>
    /\ max_pathways = 0
    /\ traced = << >>
    /\ pathways = NoPacket

(***************************************************************************)
(* The codec bench.                                                        *)
(***************************************************************************)
\* field bytes: a zero byte and a non-zero byte
FieldBytes == {0, 97}

\* every string over FieldBytes of at most n bytes
RECURSIVE Strings(_)
Strings(n) ==
    IF n = 0 THEN { << >> }
    ELSE LET S == Strings(n - 1)
         IN  S \cup { Append(t, b) : t \in { u \in S : Len(u) = n - 1 }, b \in FieldBytes }

\* every tuple of exactly k strings with at most budget bytes in total
RECURSIVE TupleSet(_, _)
TupleSet(k, budget) ==
    IF k = 0 THEN { << >> }
    ELSE UNION { { << f >> \o t : t \in TupleSet(k - 1, budget - Len(f)) } :
                 f \in Strings(budget) }

FieldTuples == UNION { TupleSet(k, MaxBytes) : k \in 0..MaxFields }

\* opcodes built: a negative one (a Kerberos error code), a small one, a large one
CodecOpcodes == { -1765328377, MR_QUERY, MR_MORE_DATA }

\* s with the four bytes after the first off bytes replaced by the u32 v
SetU32(s, off, v) == Take(s, off) \o FmtU32(v) \o Drop(s, off + 4)

\* What a peer or a faulty transport can make of a frame: one header word or
\* the first field's length prefix changed, bytes cut off or added.
Corruptions(b) ==
    LET argc == ReadU32(SubSeq(b, 13, 16))
    IN  { SetU32(b, 0, Len(b) + d) : d \in {1, 2, 4} }
          \cup { SetU32(b, 4, v) : v \in {1, 3} }
          \cup { SetU32(b, 12, argc + 1) }
          \cup (IF argc > 0
                THEN { SetU32(b, 12, argc - 1) }
                       \cup { SetU32(b, 16, ReadU32(SubSeq(b, 17, 20)) + d) : d \in {1, 4, 8} }
                       \cup { Take(b, Len(b) - d) : d \in {1, 4} }
                ELSE { })
          \cup { b \o t : t \in { <<0>>, <<0, 0, 0, 0>>, <<0, 0, 0, 1, 97, 0, 0>> } }

ConnOff ==
    /\ conn = "off"
    /\ version = "unset"
    /\ sent = << >>
    /\ pc = << >> /\ op = << >> /\ result = << >> /\ rows = << >>
    /\ motd = << >> /\ ret = << >>
    /\ response = << >>
    /\ calls = << >>
    /\ outstanding = << >> /\ emitted = 0 /\ eof = FALSE /\ replied = << >>
    /\ owner = << >> /\ handed = << >>

CodecInit ==
    /\ cphase = "input"
    /\ pkt \in [opcode : CodecOpcodes, data : FieldTuples]
    /\ raw = << >>
    /\ damaged = FALSE
    /\ parsed = NoPacket
    /\ ConnOff /\ RecvOff /\ ListsOff

\* packet.build()
BuildPacket ==
    /\ cphase = "input"
    /\ raw' = Build(pkt.opcode, pkt.data)
    /\ cphase' = "built"
    /\ UNCHANGED << pkt, damaged, parsed, connVars, recvVars, listVars >>

\* the frame is damaged before it is parsed
CorruptFrame ==
    /\ cphase = "built"
    /\ \E b \in Corruptions(raw) : raw' = b
    /\ damaged' = TRUE
    /\ cphase' = "wire"
    /\ UNCHANGED << pkt, parsed, connVars, recvVars, listVars >>

\* packet.parse(raw)
ParsePacket ==
    /\ cphase \in {"built", "wire"}
    /\ parsed' = Parse(raw)
    /\ cphase' = "parsed"
    /\ UNCHANGED << pkt, raw, damaged, connVars, recvVars, listVars >>

CodecNext == BuildPacket \/ CorruptFrame \/ ParsePacket

SpecCodec == CodecInit /\ [][CodecNext]_vars

(***************************************************************************)
(* The connection: client.py.                                              *)
(***************************************************************************)
Callers == {"c1", "c2"}

\* str(n) for n >= 0: decimal digits
RECURSIVE Str(_)
Str(n) == IF n < 10 THEN << 48 + n >> ELSE Append(Str(n \div 10), 48 + (n % 10))

\* inputs of the calls
Versions     == {2, MOIRA_QUERY_VERSION}
QueryName    == << 113 >>
QueryParams  == << << 120 >> >>
KerberosToken == << 110, 0, 7 >>

\* what the server writes in one frame: a status and a tuple of fields
ServerData     == { << >>, << <<97>> >>, << <<98>>, <<99>> >> }
ServerFrames   ==
    [status : {MR_MORE_DATA}, data : ServerData]
      \cup [status : {MR_SUCCESS}, data : { << >>, << <<100>> >> }]
      \cup [status : {MR_VERSION_LOW, MR_PERM}, data : { << >> }]
Eof            == [status |-> -1, data |-> << >>]

\* the bytes of the server's next write (none when it closes the stream)
Stream(f) == IF f = Eof THEN << >> ELSE Build(f.status, f.data)

\* the replies to the challenge: the fixed response, the response with one
\* byte changed, a short read, a closed stream
ChallengeReplies ==
    { MOIRA_PROTOCOL_RESPONSE }
      \cup { [MOIRA_PROTOCOL_RESPONSE EXCEPT ![i] = (@ + 1) % 256] :
             i \in 1..Len(MOIRA_PROTOCOL_RESPONSE) }
      \cup { Take(MOIRA_PROTOCOL_RESPONSE, Len(MOIRA_PROTOCOL_RESPONSE) - 1), << >> }

\* MoiraError(code)
MoiraError_NoCode(code) == [err |-> "MoiraError", code |-> 0]
MoiraError(code) == [err |-> "MoiraError", code |-> code]
\* MoiraUnavailableError("Moira server is currently unavaliable: %s" % motd)
MoiraUnavailableError(m) == [err |-> "MoiraUnavailableError", msg |-> UnavailablePrefix \o m]
\* result.data[0] on an empty tuple
IndexError == [err |-> "IndexError"]

\* challenge(): response != MOIRA_PROTOCOL_RESPONSE
ChallengeOk_LengthOnly(resp) == Len(resp) = Len(MOIRA_PROTOCOL_RESPONSE)
ChallengeOk(resp) == resp = MOIRA_PROTOCOL_RESPONSE

\* recvPacket() on a stream that delivers the bytes s and then closes or
\* pauses: recv(4), the length check, recv(length - 4), parse
RecvPacket(s) ==
    IF Len(s) < 4 THEN ConnectionError
    ELSE LET length == ReadU32(s)
         IN  IF length < 4 THEN ConnectionError
             ELSE IF Len(s) < length THEN ConnectionError
             ELSE Parse(Take(s, length))

\* what recvPacket() returns or raises when the server's next write is f
Received == [f \in ServerFrames \cup {Eof} |-> RecvPacket(Stream(f))]

\* checkMOTD(): motd += result.data[0]
MotdAppend(m, packet) == m \o packet.data[1]

\* query(): result.append(response.data)
QueryAppend_Prepend(rs, packet) == << packet.data >> \o rs
QueryAppend(rs, packet) == Append(rs, packet.data)

\* checkMOTD(): result.opcode == MR_SUCCESS
MotdSuccess_OrVersionLow(opcode) == opcode = MR_SUCCESS \/ opcode = MR_VERSION_LOW
MotdSuccess(opcode) == opcode = MR_SUCCESS

\* setVersion(): self.version == version
VersionIsSet_Always(cur, v) == TRUE
VersionIsSet(cur, v) == cur = v

\* setVersion(): the statuses that do not raise
SetVersionAccepts_SuccessOnly(opcode) == opcode = MR_SUCCESS
SetVersionAccepts(opcode) == opcode = MR_SUCCESS \/ opcode = MR_VERSION_LOW

NoCall  == [name |-> "none", version |-> 0]
NoRet   == [call |-> "none", exc |-> NoExc, value |-> << >>]

ConnInit ==
    /\ conn = "none"
    /\ version = -1
    /\ sent = << >>
    /\ pc = [c \in Callers |-> "idle"]
    /\ op = [c \in Callers |-> NoCall]
    /\ response = << >>
    /\ result = [c \in Callers |-> NoPacket]
    /\ rows = [c \in Callers |-> << >>]
    /\ motd = [c \in Callers |-> << >>]
    /\ ret = [c \in Callers |-> NoRet]
    /\ calls = << >>
    /\ outstanding = << >>
    /\ emitted = 0
    /\ eof = FALSE
    /\ replied = << >>
    /\ owner = << >>
    /\ handed = [c \in Callers |-> "none"]

CodecOff ==
    /\ cphase = "off"
    /\ pkt = [opcode |-> 0, data |-> << >>]
    /\ raw = << >>
    /\ damaged = FALSE
    /\ parsed = NoPacket

Init == CodecOff /\ ConnInit /\ RecvOff /\ ListsOff

\* ---- the server's side of a receive ----

\* the server may write frame f now, or close the stream (f = Eof)
CanDeliver(f) ==
    \/ f = Eof
    \/ /\ f \in ServerFrames
       /\ ~eof
       /\ outstanding # << >>
       /\ (f.status = MR_MORE_DATA => emitted < MaxRows)

\* the requests still unanswered after the server wrote f
OutAfter(f) ==
    IF f = Eof \/ f.status = MR_MORE_DATA THEN outstanding ELSE Tail(outstanding)

\* the server wrote f
ServerWrote(f) ==
    /\ eof' = (eof \/ f = Eof)
    /\ emitted' = IF f = Eof THEN emitted
                  ELSE IF f.status = MR_MORE_DATA THEN emitted + 1 ELSE 0

\* the client received f and sends nothing before it blocks or ends the call
NoSend(f) ==
    /\ outstanding' = OutAfter(f)
    /\ replied' = IF f = Eof THEN replied ELSE Append(replied, f)
    /\ UNCHANGED sent

\* the client received f and then calls sendPacket(opcode, data)
ThenSend(f, opcode, data) ==
    /\ sent' = Append(sent, Build(opcode, data))
    /\ outstanding' = Append(OutAfter(f), opcode)
    /\ replied' = << >>

\* sendPacket(opcode, data) with no receive before it in the step
SendPacket(opcode, data) ==
    /\ sent' = Append(sent, Build(opcode, data))
    /\ outstanding' = Append(outstanding, opcode)
    /\ replied' = << >>

\* the step of caller c on the socket, seen from the server: a request it
\* sent is the newest, a request answered by a terminal frame was the oldest,
\* and a frame c received answered the oldest request
Tracks(c) ==
    LET sends    == sent' # sent
        answered == Len(outstanding') < Len(outstanding) + (IF sends THEN 1 ELSE 0)
        got      == answered \/ Len(replied') > Len(replied)
        rest     == IF answered THEN Tail(owner) ELSE owner
    IN  /\ owner' = IF sends THEN Append(rest, c) ELSE rest
        /\ handed' = IF got /\ owner # << >>
                     THEN [handed EXCEPT ![c] = owner[1]]
                     ELSE handed

\* ---- how a call ends ----

\* the call of caller c returns value
Returns(c, value) ==
    /\ pc' = [pc EXCEPT ![c] = "idle"]
    /\ ret' = [ret EXCEPT ![c] = [call |-> op[c].name, exc |-> NoExc, value |-> value]]
    /\ conn' = IF op[c].name = "init" THEN "ready" ELSE conn

\* the call of caller c raises exc; a raising __init__ leaves no object
Raises(c, exc) ==
    /\ pc' = [pc EXCEPT ![c] = "idle"]
    /\ ret' = [ret EXCEPT ![c] = [call |-> op[c].name, exc |-> exc, value |-> << >>]]
    /\ conn' = IF op[c].name = "init" THEN "failed" ELSE conn

\* ---- __init__ ----

\* MoiraClient(server, timeout, default_version) up to the receive in
\* challenge(): the socket is made and the challenge is sent
Open(c) ==
    /\ conn = "none" /\ pc[c] = "idle"
    /\ \E dv \in {0} \cup Versions :
          op' = [op EXCEPT ![c] =
                   [name |-> "init",
                    version |-> IF dv = 0 THEN MOIRA_QUERY_VERSION ELSE dv]]
    /\ conn' = "opening"
    /\ sent' = Append(sent, MOIRA_PROTOCOL_CHALLENGE)
    /\ outstanding' = << -1 >>
    /\ replied' = << >>
    /\ pc' = [pc EXCEPT ![c] = "challenge"]
    /\ UNCHANGED << codecVars, recvVars, listVars, version, response, result, rows, motd, ret, calls,
                    emitted, eof >>
    /\ Tracks(c)

\* challenge(): the reply is received and compared; on a match checkMOTD()
\* sends the outage request
ChallengeRecv(c) ==
    /\ pc[c] = "challenge"
    /\ \E resp \in ChallengeReplies :
          /\ response' = resp
          /\ eof' = (resp = << >>)
          /\ IF ~ChallengeOk(resp)
             THEN /\ Raises(c, ConnectionError)
                  /\ outstanding' = << >>
                  /\ UNCHANGED << sent, replied >>
             ELSE /\ sent' = Append(sent, Build(MR_MOTD, << >>))
                  /\ outstanding' = << MR_MOTD >>
                  /\ replied' = << >>
                  /\ pc' = [pc EXCEPT ![c] = "motd_first"]
                  /\ UNCHANGED << ret, conn >>
    /\ UNCHANGED << codecVars, recvVars, listVars, version, op, result, rows, motd, calls, emitted >>
    /\ Tracks(c)

\* checkMOTD(): the first frame of the answer; on a bare success __init__
\* goes on: self.version = None, setVersion(default_version)
MotdRecvFirst(c) ==
    /\ pc[c] = "motd_first"
    /\ \E f \in ServerFrames \cup {Eof} :
          /\ CanDeliver(f)
          /\ ServerWrote(f)
          /\ LET r == Received[f]
             IN  /\ result' = [result EXCEPT ![c] = r]
                 /\ IF r.err # "none"
                    THEN Raises(c, r) /\ NoSend(f) /\ UNCHANGED << version, motd >>
                    ELSE IF MotdSuccess(r.opcode)
                    THEN /\ version' = 0
                         /\ IF VersionIsSet(0, op[c].version)
                            THEN Returns(c, << >>) /\ NoSend(f)
                            ELSE /\ ThenSend(f, MR_SETVERSION, << Str(op[c].version) >>)
                                 /\ pc' = [pc EXCEPT ![c] = "setversion"]
                                 /\ UNCHANGED << ret, conn >>
                         /\ UNCHANGED motd
                    ELSE IF r.opcode # MR_MORE_DATA
                    THEN Raises(c, MoiraError(r.opcode)) /\ NoSend(f)
                         /\ UNCHANGED << version, motd >>
                    ELSE IF r.data = << >>
                    THEN Raises(c, IndexError) /\ NoSend(f)
                         /\ UNCHANGED << version, motd >>
                    ELSE /\ motd' = [motd EXCEPT ![c] = MotdAppend(<< >>, r)]
                         /\ pc' = [pc EXCEPT ![c] = "motd_loop"]
                         /\ NoSend(f)
                         /\ UNCHANGED << version, ret, conn >>
    /\ UNCHANGED << codecVars, recvVars, listVars, op, response, rows, calls >>
    /\ Tracks(c)

\* checkMOTD(): a frame after a "more data" frame
MotdRecvLoop(c) ==
    /\ pc[c] = "motd_loop"
    /\ \E f \in ServerFrames \cup {Eof} :
          /\ CanDeliver(f)
          /\ ServerWrote(f)
          /\ NoSend(f)
          /\ LET r == Received[f]
             IN  /\ result' = [result EXCEPT ![c] = r]
                 /\ IF r.err # "none"
                    THEN Raises(c, r) /\ UNCHANGED motd
                    ELSE IF r.opcode = MR_MORE_DATA
                    THEN IF r.data = << >>
                         THEN Raises(c, IndexError) /\ UNCHANGED motd
                         ELSE /\ motd' = [motd EXCEPT ![c] = MotdAppend(motd[c], r)]
                              /\ UNCHANGED << pc, ret, conn >>
                    ELSE IF ~MotdSuccess(r.opcode)
                    THEN Raises(c, MoiraError(r.opcode)) /\ UNCHANGED motd
                    ELSE Raises(c, MoiraUnavailableError(motd[c])) /\ UNCHANGED motd
    /\ UNCHANGED << codecVars, recvVars, listVars, version, op, response, rows, calls >>
    /\ Tracks(c)

\* ---- setVersion, authenticate, query ----

\* a call other than __init__ starts on the object: its locals are fresh
CallStarts(c, name, v) ==
    /\ conn = "ready" /\ pc[c] = "idle"
    /\ Len(calls) < MaxCalls
    /\ op' = [op EXCEPT ![c] = [name |-> name, version |-> v]]
    /\ calls' = Append(calls, [by |-> c, name |-> name, version |-> v,
                                from |-> Len(sent), prev |-> ret[c].exc.err])
    /\ result' = [result EXCEPT ![c] = NoPacket]
    /\ rows' = [rows EXCEPT ![c] = << >>]

\* setVersion(v), called on the object, up to its receive
CallSetVersion(c) ==
    \E v \in Versions :
        /\ CallStarts(c, "setVersion", v)
        /\ IF VersionIsSet(version, v)
           THEN /\ pc' = pc
                /\ ret' = [ret EXCEPT ![c] =
                             [call |-> "setVersion", exc |-> NoExc, value |-> << >>]]
                /\ UNCHANGED << sent, outstanding, replied >>
           ELSE /\ SendPacket(MR_SETVERSION, << Str(v) >>)
                /\ pc' = [pc EXCEPT ![c] = "setversion"]
                /\ ret' = [ret EXCEPT ![c] = NoRet]
        /\ UNCHANGED << codecVars, recvVars, listVars, conn, version, response, motd, emitted, eof >>
        /\ Tracks(c)

\* setVersion(): the answer.  (self.version is not assigned.)  When it
\* returns inside query(), the query is sent.
SetVersionRecv(c) ==
    /\ pc[c] = "setversion"
    /\ \E f \in ServerFrames \cup {Eof} :
          /\ CanDeliver(f)
          /\ ServerWrote(f)
          /\ LET r == Received[f]
             IN  /\ result' = [result EXCEPT ![c] = r]
                 /\ IF r.err # "none"
                    THEN Raises(c, r) /\ NoSend(f) /\ UNCHANGED rows
                    ELSE IF ~SetVersionAccepts(r.opcode)
                    THEN Raises(c, MoiraError(r.opcode)) /\ NoSend(f) /\ UNCHANGED rows
                    ELSE IF op[c].name = "query"
                    THEN /\ ThenSend(f, MR_QUERY, << QueryName >> \o QueryParams)
                         /\ rows' = [rows EXCEPT ![c] = << >>]
                         /\ pc' = [pc EXCEPT ![c] = "query"]
                         /\ UNCHANGED << ret, conn >>
                    ELSE Returns(c, << >>) /\ NoSend(f) /\ UNCHANGED rows
    /\ UNCHANGED << codecVars, recvVars, listVars, version, op, response, motd, calls >>
    /\ Tracks(c)

\* authenticate(client) up to its receive: the ticket comes from Kerberos
CallAuthenticate(c) ==
    /\ CallStarts(c, "authenticate", 0)
    /\ SendPacket(MR_KRB5_AUTH, << KerberosToken, MOIRA_CLIENT_IDSTRING >>)
    /\ pc' = [pc EXCEPT ![c] = "authenticate"]
    /\ ret' = [ret EXCEPT ![c] = NoRet]
    /\ UNCHANGED << codecVars, recvVars, listVars, conn, version, response, motd, emitted, eof >>
    /\ Tracks(c)

\* authenticate(): the answer
AuthenticateRecv(c) ==
    /\ pc[c] = "authenticate"
    /\ \E f \in ServerFrames \cup {Eof} :
          /\ CanDeliver(f)
          /\ ServerWrote(f)
          /\ NoSend(f)
          /\ LET r == Received[f]
             IN  /\ result' = [result EXCEPT ![c] = r]
                 /\ IF r.err # "none" THEN Raises(c, r)
                    ELSE IF r.opcode # MR_SUCCESS THEN Raises(c, MoiraError(r.opcode))
                    ELSE Returns(c, << >>)
    /\ UNCHANGED << codecVars, recvVars, listVars, version, op, response, rows, motd, calls >>
    /\ Tracks(c)

\* query(name, params, version) up to its first receive: version is None
\* (0) or a version to set first
CallQuery(c) ==
    \E v \in {0} \cup Versions :
        /\ CallStarts(c, "query", v)
        /\ IF v # 0 /\ ~VersionIsSet(version, v)
           THEN /\ SendPacket(MR_SETVERSION, << Str(v) >>)
                /\ pc' = [pc EXCEPT ![c] = "setversion"]
           ELSE /\ SendPacket(MR_QUERY, << QueryName >> \o QueryParams)
                /\ pc' = [pc EXCEPT ![c] = "query"]
        /\ ret' = [ret EXCEPT ![c] = NoRet]
        /\ UNCHANGED << codecVars, recvVars, listVars, conn, version, response, motd, emitted, eof >>
        /\ Tracks(c)

\* query(): a frame of the answer
QueryRecv(c) ==
    /\ pc[c] = "query"
    /\ \E f \in ServerFrames \cup {Eof} :
          /\ CanDeliver(f)
          /\ ServerWrote(f)
          /\ NoSend(f)
          /\ LET r == Received[f]
             IN  /\ result' = [result EXCEPT ![c] = r]
                 /\ IF r.err # "none"
                    THEN Raises(c, r) /\ UNCHANGED rows
                    ELSE IF r.opcode = MR_MORE_DATA
                    THEN /\ rows' = [rows EXCEPT ![c] = QueryAppend(rows[c], r)]
                         /\ UNCHANGED << pc, ret, conn >>
                    ELSE IF r.opcode # MR_SUCCESS
                    THEN Raises(c, MoiraError(r.opcode)) /\ UNCHANGED rows
                    ELSE Returns(c, rows[c]) /\ UNCHANGED rows
    /\ UNCHANGED << codecVars, recvVars, listVars, version, op, response, motd, calls >>
    /\ Tracks(c)

\* one caller uses the object
Next ==
    \E c \in {"c1"} :
        \/ Open(c)
        \/ ChallengeRecv(c)
        \/ MotdRecvFirst(c)
        \/ MotdRecvLoop(c)
        \/ CallSetVersion(c)
        \/ SetVersionRecv(c)
        \/ CallAuthenticate(c)
        \/ AuthenticateRecv(c)
        \/ CallQuery(c)
        \/ QueryRecv(c)

Spec == Init /\ [][Next]_vars

\* ---- two callers on one object ----

\* the object as __init__ leaves it to its caller c1 when nothing failed: the
\* three requests sent, the last answered by a frame f that setVersion accepts
ReadyObject ==
    \E dv \in Versions, f \in ServerFrames :
        /\ f.status \in {MR_SUCCESS, MR_VERSION_LOW}
        /\ conn = "ready"
        /\ version = 0
        /\ sent = << MOIRA_PROTOCOL_CHALLENGE, Build(MR_MOTD, << >>),
                     Build(MR_SETVERSION, << Str(dv) >>) >>
        /\ pc = [c \in Callers |-> "idle"]
        /\ op = [c \in Callers |->
                   IF c = "c1" THEN [name |-> "init", version |-> dv] ELSE NoCall]
        /\ response = MOIRA_PROTOCOL_RESPONSE
        /\ result = [c \in Callers |-> IF c = "c1" THEN Received[f] ELSE NoPacket]
        /\ rows = [c \in Callers |-> << >>]
        /\ motd = [c \in Callers |-> << >>]
        /\ ret = [c \in Callers |->
                    IF c = "c1" THEN [call |-> "init", exc |-> NoExc, value |-> << >>]
                    ELSE NoRet]
        /\ calls = << >>
        /\ outstanding = << >>
        /\ emitted = 0
        /\ eof = FALSE
        /\ replied = << f >>
        /\ owner = << >>
        /\ handed = [c \in Callers |-> IF c = "c1" THEN "c1" ELSE "none"]

SharedInit == CodecOff /\ ReadyObject /\ RecvOff /\ ListsOff

\* two callers call query() on the object with nothing between them: each
\* step of either is a whole sendPacket or a whole recvPacket
SharedNext ==
    \E c \in Callers :
        \/ CallQuery(c)
        \/ SetVersionRecv(c)
        \/ QueryRecv(c)

SpecShared == SharedInit /\ [][SharedNext]_vars

\* query() under a lock of the object held by the caller for the whole call:
\* a call begins only when no call is under way
SerialCallQuery(c) ==
    /\ \A d \in Callers : pc[d] = "idle"
    /\ CallQuery(c)

SerialNext ==
    \E c \in Callers :
        \/ SerialCallQuery(c)
        \/ SetVersionRecv(c)
        \/ QueryRecv(c)

SpecSerial == SharedInit /\ [][SerialNext]_vars

(***************************************************************************)
(* The receive bench: client.py recv() and recvPacket() on a socket whose  *)
(* peer writes some bytes and then closes the stream.  socket.recv(n)      *)
(* blocks until bytes are there, hands out between 1 and n of them, and    *)
(* gives the empty string once the stream is closed and drained.           *)
(***************************************************************************)
\* the frames a peer writes
RecvFrames == { Build(MR_SUCCESS, << >>), Build(MR_MORE_DATA, << <<97>> >>) }

\* what the peer writes before it closes: a frame cut off anywhere, a frame
\* followed by the first bytes of the next one, a frame whose length word is
\* any value below the header size
RecvStreams ==
    UNION { { Take(b, k) : k \in 0..Len(b) }
              \cup { b \o Take(b, k) : k \in 1..MaxExtra }
              \cup { SetU32(b, 0, n) : n \in 0..15 }
            : b \in RecvFrames }

\* recv(): the argument of socket.recv
RecvArg_BufferSize(buffer_size, data) == buffer_size
RecvArg(buffer_size, data) == buffer_size - Len(data)

\* recvPacket(): the length that is refused
LengthRefused(length) == length < 4

RecvInit ==
    /\ CodecOff /\ ConnOff /\ ListsOff
    /\ rphase = "length"
    /\ stream \in RecvStreams
    /\ pos = 0
    /\ recv_data = << >>
    /\ length_data = << >>
    /\ received = NoPacket

\* recvPacket() after recv(4) returned ld: the length check, and recv(0)
\* which returns at once without reading
AfterLength(ld) ==
    /\ length_data' = ld
    /\ recv_data' = << >>
    /\ IF LengthRefused(ReadU32(ld))
       THEN rphase' = "done" /\ received' = ConnectionError
       ELSE IF ReadU32(ld) - 4 <= 0
       THEN rphase' = "done" /\ received' = Parse(ld)
       ELSE rphase' = "remainder" /\ UNCHANGED received

\* recv(4): socket.recv hands out a piece
RecvLengthPiece ==
    /\ rphase = "length" /\ pos < Len(stream)
    /\ \E n \in 1..RecvArg(4, recv_data) :
          /\ pos + n <= Len(stream)
          /\ pos' = pos + n
          /\ LET data == recv_data \o SubSeq(stream, pos + 1, pos + n)
             IN  IF Len(data) < 4
                 THEN recv_data' = data /\ UNCHANGED << rphase, length_data, received >>
                 ELSE AfterLength(data)
    /\ UNCHANGED << stream, codecVars, connVars, listVars >>

\* recv(length - 4): socket.recv hands out a piece; when all are there the
\* frame is parsed
RecvRemainderPiece ==
    /\ rphase = "remainder" /\ pos < Len(stream)
    /\ \E n \in 1..RecvArg(ReadU32(length_data) - 4, recv_data) :
          /\ pos + n <= Len(stream)
          /\ pos' = pos + n
          /\ LET data == recv_data \o SubSeq(stream, pos + 1, pos + n)
             IN  /\ recv_data' = data
                 /\ IF Len(data) < ReadU32(length_data) - 4
                    THEN UNCHANGED << rphase, received >>
                    ELSE rphase' = "done" /\ received' = Parse(length_data \o data)
    /\ UNCHANGED << stream, length_data, codecVars, connVars, listVars >>

\* recv(): socket.recv gives the empty string, the stream is closed
RecvClosed ==
    /\ rphase \in {"length", "remainder"} /\ pos = Len(stream)
    /\ rphase' = "done"
    /\ received' = ConnectionError
    /\ UNCHANGED << stream, pos, recv_data, length_data, codecVars, connVars, listVars >>

RecvNext == RecvLengthPiece \/ RecvRemainderPiece \/ RecvClosed

SpecRecv == RecvInit /\ [][RecvNext]_vars

(***************************************************************************)
(* Lists: pymoira/lists.py, List.getAllMembers on the client side and      *)
(* ListTracer.  A list member is a record of its type, its name and its    *)
(* tag ("none" when the object has no tag attribute); two members are      *)
(* equal, and hash alike, when type and name agree.                        *)
(***************************************************************************)
\* the names of the lists the server has, and the list that is expanded
ListNames == {"A", "B", "C"}
RootName  == "A"

\* the rows the server can give as members of a list: (type, name)
MemberRows ==
    { << "LIST", n >> : n \in ListNames } \cup { << "USER", "D" >> }

ServerMemberSets == { S \in SUBSET MemberRows : Cardinality(S) <= MaxMembers }

\* what the server answers to a member query: rows, a status, or the
\* connection fails
Unasked == [kind |-> "unasked", code |-> 0, rows |-> {}]
PossibleAnswers ==
    [kind : {"rows"}, code : {MR_SUCCESS}, rows : ServerMemberSets]
      \cup [kind : {"MoiraError"}, code : {MR_PERM, MR_VERSION_LOW}, rows : {{}}]
      \cup [kind : {"ConnectionError"}, code : {0}, rows : {{}}]

UserError == [err |-> "UserError"]

\* client.query(query_name, (self.name,)) when the server answers a: the
\* rows of the tagged and of the untagged query, or the exception
QueryOutcome_PermAsEmpty(a, tagged) ==
    IF a.kind = "rows"
    THEN [err |-> "none",
          value |-> IF tagged THEN { r \o << "t" >> : r \in a.rows } ELSE a.rows]
    ELSE IF a.kind = "MoiraError" /\ a.code = MR_PERM THEN [err |-> "none", value |-> {}]
    ELSE IF a.kind = "MoiraError" THEN MoiraError(a.code)
    ELSE ConnectionError
QueryOutcome(a, tagged) ==
    IF a.kind = "rows"
    THEN [err |-> "none",
          value |-> IF tagged THEN { r \o << "t" >> : r \in a.rows } ELSE a.rows]
    ELSE IF a.kind = "MoiraError" THEN MoiraError(a.code)
    ELSE ConnectionError

\* getExplicitMembers: the name of the query
ExplicitQuery(tags) ==
    IF tags THEN "get_tagged_members_of_list" ELSE "get_members_of_list"

\* getAllMembers, server side: "if tags" refuses the call
ServerSideRefuses_Never(tags) == FALSE
ServerSideRefuses(tags) == tags

\* ListMember.fromTuple
FromTuple(member) ==
    [mtype |-> member[1], name |-> member[2],
     tag |-> IF Len(member) > 2 THEN member[3] ELSE "none"]

\* ListMember.__eq__ / __hash__: type and name
Key(m) == << m.mtype, m.name >>
Keys(ms) == { Key(m) : m \in ms }

\* getMembersViaQuery: frozenset of the members made of the rows
GetMembersViaQuery(resp) == { FromTuple(member) : member \in resp }

\* type(member) == List
IsList(m) == m.mtype = "LIST"

\* members |= new_members: the members already there are kept
MembersUnion_KeepNew(ms, new_members) ==
    new_members \cup { m \in ms : Key(m) \notin Keys(new_members) }
MembersUnion_Plain(ms, new_members) == ms \cup new_members
MembersUnion(ms, new_members) ==
    ms \cup { m \in new_members : Key(m) \notin Keys(ms) }

\* {member.name for member in members if type(member) == List} - set(known)
ToExpand_RootAgain(ms, k) ==
    { m.name : m \in { x \in ms : IsList(x) } } \ (DOMAIN k \ {RootName})
ToExpand_All(ms, k) == { m.name : m \in { x \in ms : IsList(x) } }
ToExpand(ms, k) == { m.name : m \in { x \in ms : IsList(x) } } \ DOMAIN k

\* err.code == constants.MR_PERM
IsPerm_Never(code) == FALSE
IsPerm_Always(code) == TRUE
IsPerm(code) == code = MR_PERM

\* the values of the dictionary known: a member set, or None
NoneValue_Empty == [isNone |-> FALSE, members |-> {}]
NoneValue == [isNone |-> TRUE, members |-> {}]
KnownValue(ms) == [isNone |-> FALSE, members |-> ms]

\* members |= new_members on a frozenset binds the name members to a new
\* set: the set that known holds for the root is left as it is (k is known,
\* ms the new value of members)
KnownAfterUnion_InPlace(k, ms) == [k EXCEPT ![RootName] = KnownValue(ms)]
KnownAfterUnion(k, ms) == k

\* [m for m in members if type(m) != List]
WithoutLists_Same(ms) == ms
WithoutLists(ms) == { m \in ms : ~IsList(m) }

\* every order in which the elements of S can be iterated
RECURSIVE Orders(_)
Orders(S) ==
    IF S = {} THEN { << >> }
    ELSE UNION { { << x >> \o o : o \in Orders(S \ {x}) } : x \in S }

\* the lists of o whose known members include key, in the order of o
RECURSIVE SelectIn(_, _, _)
SelectIn(o, k, key) ==
    IF o = << >> THEN << >>
    ELSE (IF ~k[Head(o)].isNone /\ key \in Keys(k[Head(o)].members)
          THEN << Head(o) >> ELSE << >>) \o SelectIn(Tail(o), k, key)

\* createInverseMap: self.inverse, when self.lists.items() iterates in order o
\* (lists whose value is None or empty are skipped)
InverseOf(k, o) ==
    [key \in UNION { Keys(k[n].members) : n \in DOMAIN k } |-> SelectIn(o, k, key)]

\* createInverseMap: self.inverseLists
InverseListsOf_OnRoot(inv) ==
    [n \in { key[2] : key \in { x \in DOMAIN inv :
                 x[1] = "LIST" /\ \E i \in 1..Len(inv[x]) : inv[x][i] = RootName } }
       |-> inv[<< "LIST", n >>]]
InverseListsOf(inv) ==
    [n \in { key[2] : key \in { x \in DOMAIN inv : x[1] = "LIST" } } |-> inv[<< "LIST", n >>]]

\* the ceilings of self.max_pathways a tracer is made with
PathwayCeilings == {1, 2}

\* newway[::-1]
Reverse_Rotate(w) == IF w = << >> THEN w ELSE Tail(w) \o << Head(w) >>
Reverse_Same(w) == w
Reverse(w) == [i \in 1..Len(w) |-> w[Len(w) + 1 - i]]

\* len(output) == self.max_pathways
LimitReached_Late(n, ceiling) == n = ceiling + 1
LimitReached(n, ceiling) == n = ceiling

KeyError == [err |-> "KeyError"]

\* recursiveTrace(member, curlist, curway, output): the list output after the
\* call, or the exception
RECURSIVE RecursiveTrace(_, _, _), TraceLoop(_, _, _, _)
RecursiveTrace(curlist, curway, output) ==
    LET newway == Append(curway, curlist)
    IN  IF curlist = RootName
        THEN IF LimitReached(Len(output), max_pathways) THEN UserError
             ELSE [err |-> "none", out |-> Append(output, Reverse(newway))]
        ELSE IF curlist \notin DOMAIN inverseLists THEN KeyError
        ELSE TraceLoop(inverseLists[curlist], 1, newway, output)

\* the for loop of recursiveTrace from the i-th name on
TraceLoop(names, i, newway, output) ==
    IF i > Len(names) THEN [err |-> "none", out |-> output]
    ELSE IF \E j \in 1..Len(newway) : newway[j] = names[i]
    THEN TraceLoop(names, i + 1, newway, output)
    ELSE LET r == RecursiveTrace(names[i], newway, output)
         IN  IF r.err # "none" THEN r ELSE TraceLoop(names, i + 1, newway, r.out)

\* the for loop of trace from the i-th list on
RECURSIVE TraceFrom(_, _, _)
TraceFrom(names, i, output) ==
    IF i > Len(names) THEN [err |-> "none", out |-> output]
    ELSE LET r == RecursiveTrace(names[i], << >>, output)
         IN  IF r.err # "none" THEN r ELSE TraceFrom(names, i + 1, r.out)

\* trace(member)
TraceOf(key) ==
    IF key \notin DOMAIN inverse THEN [err |-> "none", out |-> << >>]
    ELSE TraceFrom(inverse[key], 1, << >>)

ListsInit ==
    /\ CodecOff /\ ConnOff /\ RecvOff
    /\ lphase = "idle"
    /\ answer = [n \in ListNames |-> Unasked]
    /\ args = NoArgs
    /\ members = {} /\ denied = {} /\ known = << >>
    /\ to_expand = {} /\ pending = {}
    /\ current_depth = 0
    /\ max_depth \in {SmallDepth, MOIRA_MAX_LIST_DEPTH}
    /\ lret = NoExc
    /\ queries = << >>
    /\ inverse = << >> /\ inverseLists = << >>
    /\ max_pathways = 0
    /\ traced = << >>
    /\ pathways = NoPacket

\* the server answers a to the member query of list n: a list it was asked
\* about before has the answer it had
ServerAnswers(n, a) ==
    /\ a \in PossibleAnswers
    /\ answer[n] # Unasked => a = answer[n]
    /\ answer' = [answer EXCEPT ![n] = a]

\* getAllMembers raises exc
ListRaises(exc) ==
    /\ lphase' = "raised"
    /\ lret' = exc
    /\ UNCHANGED << inverse, inverseLists, max_pathways >>

\* the loop has ended: the lists are filtered out unless asked for, and the
\* triple is returned; in ListTracer.__init__ the ceiling is stored and the
\* inverse maps are made, self.lists.items() iterating in some order o
ListReturns(ar, ms, dn, k) ==
    /\ members' = (IF ar.include_lists THEN ms ELSE WithoutLists(ms))
    /\ denied' = dn
    /\ known' = k
    /\ lret' = [err |-> "none"]
    /\ IF ar.tracer
       THEN /\ lphase' = "tracer"
            /\ max_pathways' \in PathwayCeilings
            /\ \E o \in Orders(DOMAIN k) :
                  /\ inverse' = InverseOf(k, o)
                  /\ inverseLists' = InverseListsOf(InverseOf(k, o))
       ELSE /\ lphase' = "returned"
            /\ UNCHANGED << inverse, inverseLists, max_pathways >>

\* the body of the while loop from its top, current_depth having become
\* depth, up to the first query of the for loop
EnterRound(ar, ms, dn, k, depth) ==
    /\ current_depth' = depth
    /\ IF depth > max_depth
       THEN /\ ListRaises(UserError)
            /\ members' = ms /\ denied' = dn /\ known' = k
            /\ UNCHANGED to_expand
            /\ pending' = {}
       ELSE /\ to_expand' = ToExpand(ms, k)
            /\ pending' = ToExpand(ms, k)
            /\ IF ToExpand(ms, k) = {}
               THEN ListReturns(ar, ms, dn, k)
               ELSE /\ lphase' = "expanding"
                    /\ members' = ms /\ denied' = dn /\ known' = k
                    /\ UNCHANGED << lret, inverse, inverseLists, max_pathways >>

\* getAllMembers(server_side = True, ...): tags are refused before anything
\* is asked; else the end members are asked for and returned, without the
\* lists unless they are asked for
ServerSide(ar) ==
    /\ UNCHANGED << answer, denied, known, to_expand, pending, current_depth >>
    /\ IF ServerSideRefuses(ar.tags)
       THEN /\ ListRaises(UserError)
            /\ UNCHANGED << members, queries >>
       ELSE /\ queries' = << [name |-> RootName, query |-> "get_end_members_of_list"] >>
            /\ \E a \in PossibleAnswers :
                  LET r == QueryOutcome(a, FALSE)
                  IN  IF r.err # "none"
                      THEN ListRaises(r) /\ UNCHANGED members
                      ELSE /\ members' = (IF ar.include_lists
                                          THEN GetMembersViaQuery(r.value)
                                          ELSE WithoutLists(GetMembersViaQuery(r.value)))
                           /\ lphase' = "returned"
                           /\ lret' = [err |-> "none"]
                           /\ UNCHANGED << inverse, inverseLists, max_pathways >>

\* getAllMembers(server_side = False, ...) up to the first query of the for
\* loop: the root's explicit members are asked for
ClientSide(ar) ==
    \E a \in PossibleAnswers :
        /\ ServerAnswers(RootName, a)
        /\ queries' = << [name |-> RootName, query |-> ExplicitQuery(ar.tags)] >>
        /\ LET r == QueryOutcome(a, ar.tags)
           IN  IF r.err # "none"
               THEN /\ ListRaises(r)
                    /\ UNCHANGED << members, denied, known, to_expand, pending, current_depth >>
               ELSE EnterRound(ar, GetMembersViaQuery(r.value), {},
                               RootName :> KnownValue(GetMembersViaQuery(r.value)), 1)

\* getAllMembers(server_side, include_lists, tags), called by itself or by
\* ListTracer.__init__ (client side, include_lists = True)
CallGetAllMembers ==
    /\ lphase = "idle"
    /\ \E ar \in [server_side : BOOLEAN, include_lists : BOOLEAN, tags : BOOLEAN,
                  tracer : BOOLEAN] :
          /\ ar.tracer => (ar.include_lists /\ ~ar.server_side)
          /\ args' = ar
          /\ IF ar.server_side THEN ServerSide(ar) ELSE ClientSide(ar)
    /\ UNCHANGED << max_depth, traced, pathways, codecVars, connVars, recvVars >>

\* one turn of the for loop: the members of a list of to_expand are asked
\* for; after the last turn the while loop goes on
ExpandSublist ==
    /\ lphase = "expanding"
    /\ \E sublist_name \in pending, a \in PossibleAnswers :
          /\ ServerAnswers(sublist_name, a)
          /\ queries' = Append(queries, [name |-> sublist_name, query |-> ExplicitQuery(FALSE)])
          /\ LET r   == QueryOutcome(a, FALSE)
                 perm == r.err = "MoiraError" /\ IsPerm(r.code)
                 new_members == IF r.err = "none" THEN GetMembersViaQuery(r.value) ELSE {}
                 dn  == IF perm THEN denied \cup {sublist_name} ELSE denied
                 k   == IF perm THEN (sublist_name :> NoneValue) @@ known
                        ELSE KnownAfterUnion(
                                (sublist_name :> KnownValue(new_members)) @@ known,
                                MembersUnion(members, new_members))
                 ms  == IF perm THEN members ELSE MembersUnion(members, new_members)
             IN  IF r.err # "none" /\ ~perm
                 THEN /\ ListRaises(r)
                      /\ UNCHANGED << members, denied, known, to_expand, pending, current_depth >>
                 ELSE IF pending \ {sublist_name} # {}
                 THEN /\ pending' = pending \ {sublist_name}
                      /\ members' = ms /\ denied' = dn /\ known' = k
                      /\ UNCHANGED << lphase, lret, to_expand, current_depth,
                                      inverse, inverseLists, max_pathways >>
                 ELSE EnterRound(args, ms, dn, k, current_depth + 1)
    /\ UNCHANGED << args, max_depth, traced, pathways, codecVars, connVars, recvVars >>

\* tracer.trace(member)
Trace ==
    /\ lphase = "tracer"
    /\ \E row \in MemberRows :
          /\ traced' = row
          /\ pathways' = TraceOf(row)
    /\ UNCHANGED << lphase, answer, args, members, denied, known, to_expand, pending,
                    current_depth, max_depth, lret, queries, inverse,
                    inverseLists, max_pathways, codecVars, connVars, recvVars >>

ListsNext == CallGetAllMembers \/ ExpandSublist \/ Trace

SpecLists == ListsInit /\ [][ListsNext]_vars

\* the expansion alone; every turn of its loops is taken in the end
ExpandNext == CallGetAllMembers \/ ExpandSublist

SpecListsLive == ListsInit /\ [][ExpandNext]_vars /\ WF_vars(ExpandNext)

(***************************************************************************)
(* Claims about the codec (checked under SpecCodec).                       *)
(***************************************************************************)
\* n rounded up to a multiple of four
Pad4(n) == ((n + 3) \div 4) * 4

\* the bytes the first i fields take in a frame: prefix and padded value each
RECURSIVE SumExtents(_, _)
SumExtents(data, i) ==
    IF i = 0 THEN 0
    ELSE SumExtents(data, i - 1) + 4 + Pad4(Len(data[i]) + 1)

NoZero(f) == \A i \in 1..Len(f) : f[i] # 0

\* a zero byte with a non-zero byte somewhere after it
HasInternalZero(f) ==
    \E i \in 1..Len(f) : f[i] = 0 /\ \E j \in (i+1)..Len(f) : f[j] # 0

PrefixBeforeZero(f) ==
    SubSeq(f, 1, (CHOOSE i \in 1..Len(f) : f[i] = 0 /\ \A j \in 1..(i-1) : f[j] # 0) - 1)

\* g is f without its trailing zero bytes
IsRStripOf(g, f) ==
    /\ Len(g) <= Len(f)
    /\ g = SubSeq(f, 1, Len(g))
    /\ \A j \in (Len(g)+1)..Len(f) : f[j] = 0
    /\ (g = << >> \/ g[Len(g)] # 0)

\* raw is what build() made of pkt and has been parsed
RoundTripDone == cphase = "parsed" /\ ~damaged

\* C2: for every opcode and every tuple of fields without zero bytes (empty
\* fields and the empty tuple included), parsing the bytes that build()
\* produced gives the same opcode and the same fields in the same order.
C2_RoundTrip ==
    (RoundTripDone /\ \A i \in 1..Len(pkt.data) : NoZero(pkt.data[i]))
        => /\ parsed.err = "none"
           /\ parsed.opcode = pkt.opcode
           /\ parsed.data = pkt.data

C2_Witness ==
    /\ RoundTripDone
    /\ pkt.opcode < 0
    /\ Len(pkt.data) = 2
    /\ pkt.data[1] # pkt.data[2]
    /\ \A i \in 1..2 : NoZero(pkt.data[i])
    /\ parsed.err = "none" /\ parsed.data = pkt.data

\* C3 as claimed: a field with an internal zero byte followed by non-zero
\* bytes is decoded as its prefix before the first zero byte.
C3_Original ==
    RoundTripDone =>
        \A i \in 1..Len(pkt.data) :
            HasInternalZero(pkt.data[i])
                => parsed.err = "none" /\ parsed.data[i] = PrefixBeforeZero(pkt.data[i])

\* C3 as amended: build-then-parse removes exactly the trailing zero bytes of
\* every field and nothing else; a field with an internal zero byte that ends
\* in a non-zero byte comes back unchanged.
C3_TrailingZerosOnly ==
    RoundTripDone =>
        /\ parsed.err = "none"
        /\ parsed.opcode = pkt.opcode
        /\ Len(parsed.data) = Len(pkt.data)
        /\ \A i \in 1..Len(pkt.data) :
              LET f == pkt.data[i]
                  g == parsed.data[i]
              IN  /\ IsRStripOf(g, f)
                  /\ (HasInternalZero(f) /\ f[Len(f)] # 0) => g = f

C3_Witness ==
    /\ RoundTripDone
    /\ parsed.err = "none"
    /\ \E i \in 1..Len(pkt.data) :
          /\ HasInternalZero(pkt.data[i])
          /\ parsed.data[i] = pkt.data[i]
          /\ parsed.data[i] # PrefixBeforeZero(pkt.data[i])

\* how the walk over argc declared fields of body ends: a field whose declared
\* length exceeds the bytes left after its prefix, bytes left over, no room
\* for a length prefix, or nothing wrong
RECURSIVE FieldFault(_, _)
FieldFault(body, argc) ==
    IF argc = 0 THEN (IF Len(body) > 0 THEN "leftover" ELSE "none")
    ELSE IF Len(body) < 4 THEN "noprefix"
    ELSE LET n == ReadU32(body)
         IN  IF n > Len(body) - 4 THEN "overlong"
             ELSE FieldFault(Drop(body, 4 + Pad4(n)), argc - 1)

HeaderLength(b)  == ReadU32(SubSeq(b, 1, 4))
HeaderVersion(b) == ReadU32(SubSeq(b, 5, 8))
HeaderArgc(b)    == ReadU32(SubSeq(b, 13, 16))

\* the four cases of C4
C4_Case(b) ==
    /\ Len(b) >= 16
    /\ \/ HeaderLength(b) % 4 # 0
       \/ HeaderVersion(b) # MOIRA_PROTOCOL_VERSION
       \/ FieldFault(Drop(b, 16), HeaderArgc(b)) \in {"overlong", "leftover"}

\* C4 as claimed: in each of the four cases parse fails with ProtocolError.
C4_Original ==
    (cphase = "parsed" /\ C4_Case(raw)) => parsed.err = "ProtocolError"

\* C4 as amended: in each of the four cases (header length not a multiple of
\* 4, version not the supported one, a declared field length larger than the
\* bytes that remain, bytes left after the declared fields) parse raises
\* ConnectionError and yields no packet.
C4_DecodeFails ==
    (cphase = "parsed" /\ C4_Case(raw)) => parsed = ConnectionError

C4_Witness ==
    /\ cphase = "parsed" /\ damaged
    /\ HeaderLength(raw) % 4 = 0
    /\ HeaderVersion(raw) = MOIRA_PROTOCOL_VERSION
    /\ HeaderArgc(raw) = 1
    /\ FieldFault(Drop(raw, 16), HeaderArgc(raw)) = "overlong"
    /\ parsed = ConnectionError

\* C5: the frame build() makes has a length that is a multiple of 4 and equal
\* to the header's total length, 16 plus 4 and the padded size per field; its
\* field count is the number of fields; each field's length prefix is the
\* field's length plus one, and its bytes are followed by zero bytes up to
\* the next multiple of 4.
C5_EncodeLayout ==
    (cphase \in {"built", "parsed"} /\ ~damaged) =>
        /\ Len(raw) % 4 = 0
        /\ Len(raw) = 16 + SumExtents(pkt.data, Len(pkt.data))
        /\ HeaderLength(raw) = Len(raw)
        /\ HeaderArgc(raw) = Len(pkt.data)
        /\ \A i \in 1..Len(pkt.data) :
              LET o == 16 + SumExtents(pkt.data, i - 1)
                  f == pkt.data[i]
              IN  /\ ReadU32(SubSeq(raw, o + 1, o + 4)) = Len(f) + 1
                  /\ SubSeq(raw, o + 5, o + 4 + Len(f)) = f
                  /\ \A j \in (o + 5 + Len(f))..(o + 4 + Pad4(Len(f) + 1)) : raw[j] = 0

C5_Witness ==
    /\ cphase = "built"
    /\ Len(pkt.data) = 2
    /\ Len(pkt.data[1]) = 1 /\ Len(pkt.data[2]) = 3
    /\ Len(raw) = 32

(***************************************************************************)
(* Claims about the connection (checked under Spec).                       *)
(***************************************************************************)
\* the opcode of a frame written by sendPacket
SentOpcode(frame) == ReadI32(SubSeq(frame, 9, 12))

\* the frames of sent after the first n that carry opcode
FramesSince(n, opcode) ==
    { k \in (n+1)..Len(sent) : k >= 2 /\ SentOpcode(sent[k]) = opcode }

\* the last frame sent carries opcode
LastSentIs(opcode) == Len(sent) >= 2 /\ SentOpcode(sent[Len(sent)]) = opcode

\* the frames read since the last request are n >= least "more data" frames
\* and then a frame of status last
AnswerIs(least, last) ==
    /\ Len(replied) >= least + 1
    /\ \A i \in 1..(Len(replied) - 1) : replied[i].status = MR_MORE_DATA
    /\ replied[Len(replied)].status = last

\* every frame read since the last request is a "more data" frame
OnlyMoreData ==
    replied # << >> /\ \A i \in 1..Len(replied) : replied[i].status = MR_MORE_DATA

\* the first fields of the first n frames read, concatenated
RECURSIVE Fragments(_)
Fragments(n) ==
    IF n = 0 THEN << >>
    ELSE Fragments(n - 1) \o (IF replied[n].data = << >> THEN << >> ELSE replied[n].data[1])

\* the frames sent by call number i
SentBy(i) ==
    (IF i < Len(calls) THEN calls[i+1].from ELSE Len(sent)) - calls[i].from

\* __init__ is in checkMOTD() or has ended in it
InCheckMOTD(c) == op[c].name = "init" /\ Len(sent) = 2

\* C1 as claimed: when setVersion(v) is called twice in a row with the same v
\* (the first call having returned), the second call sends nothing and the
\* two calls send at most one version-set frame; and calls of
\* query(..., version = v) with one v, none of which fails, send at most one
\* version-set frame in total.
C1_SetVersionOnce ==
    /\ \A i \in 2..Len(calls) :
          ( /\ calls[i-1].name = "setVersion" /\ calls[i].name = "setVersion"
            /\ calls[i-1].by = calls[i].by
            /\ calls[i-1].version = calls[i].version
            /\ calls[i].prev = "none" )
              => SentBy(i) = 0 /\ SentBy(i-1) + SentBy(i) <= 1
    /\ ( /\ calls # << >>
         /\ \A i \in 1..Len(calls) :
               /\ calls[i].name = "query" /\ calls[i].version = calls[1].version
               /\ calls[i].version # 0 /\ calls[i].prev = "none" )
           => Cardinality(FramesSince(3, MR_SETVERSION)) <= 1

\* C6: when the reply to the challenge differs from the fixed response,
\* __init__ raises ConnectionError, no object exists, and nothing but the
\* challenge has been sent, then and ever after.
C6_ChallengeMismatch ==
    \A c \in Callers :
        (op[c].name = "init" /\ pc[c] # "challenge" /\ response # MOIRA_PROTOCOL_RESPONSE)
            => /\ conn = "failed"
               /\ pc[c] = "idle"
               /\ ret[c] = [call |-> "init", exc |-> ConnectionError, value |-> << >>]
               /\ sent = << MOIRA_PROTOCOL_CHALLENGE >>

C6_Witness ==
    /\ conn = "failed"
    /\ Len(response) = Len(MOIRA_PROTOCOL_RESPONSE)
    /\ \A i \in 1..(Len(response) - 1) : response[i] = MOIRA_PROTOCOL_RESPONSE[i]
    /\ response[Len(response)] # MOIRA_PROTOCOL_RESPONSE[Len(response)]
    /\ ret["c1"].exc = ConnectionError

\* C7 as claimed: an answer to the outage request made of one or more "more
\* data" frames and a final success makes __init__ raise
\* MoiraUnavailableError with the fragments in receipt order, and the object
\* is never usable.  On the frames read so far: as long as they are all "more
\* data" frames and the stream is open, __init__ has not failed; once they
\* are followed by a success, it has failed with that error and has sent
\* nothing more.
C7_OutageUnavailable ==
    \A c \in Callers :
        InCheckMOTD(c) =>
            /\ (OnlyMoreData /\ ~eof) => (conn = "opening" /\ pc[c] = "motd_loop")
            /\ AnswerIs(1, MR_SUCCESS) =>
                  /\ conn = "failed" /\ pc[c] = "idle"
                  /\ ret[c].exc = [err |-> "MoiraUnavailableError",
                                   msg |-> UnavailablePrefix \o Fragments(Len(replied) - 1)]

\* what holds of the code for C7: the same, for answers whose "more data"
\* frames each carry a field
C7_WithFields ==
    \A c \in Callers :
        (InCheckMOTD(c) /\ \A i \in 1..Len(replied) :
                              replied[i].status = MR_MORE_DATA => replied[i].data # << >>) =>
            /\ (OnlyMoreData /\ ~eof) => (conn = "opening" /\ pc[c] = "motd_loop")
            /\ AnswerIs(1, MR_SUCCESS) =>
                  /\ conn = "failed" /\ pc[c] = "idle"
                  /\ ret[c].exc = [err |-> "MoiraUnavailableError",
                                   msg |-> UnavailablePrefix \o Fragments(Len(replied) - 1)]

C9_QueryRows ==
    \A c \in Callers :
        (op[c].name = "query" /\ LastSentIs(MR_QUERY) /\ AnswerIs(0, MR_SUCCESS))
            => /\ pc[c] = "idle"
               /\ ret[c].call = "query" /\ ret[c].exc = NoExc
               /\ Len(ret[c].value) = Len(replied) - 1
               /\ \A i \in 1..(Len(replied) - 1) : ret[c].value[i] = replied[i].data

C9_Witness ==
    /\ op["c1"].name = "query" /\ pc["c1"] = "idle"
    /\ Len(replied) = 3
    /\ replied[1].data # replied[2].data
    /\ replied[3].status = MR_SUCCESS /\ replied[3].data # << >>
    /\ ret["c1"].value = << replied[1].data, replied[2].data >>

\* C10: when the first frame query() reads after its request that is neither
\* "more data" nor success has status t, it raises MoiraError with code t,
\* returns no rows whatever "more data" frames came before, and has sent its
\* request once.
C10_QueryError ==
    \A c \in Callers :
        (op[c].name = "query" /\ LastSentIs(MR_QUERY) /\ replied # << >>
           /\ replied[Len(replied)].status \notin {MR_MORE_DATA, MR_SUCCESS})
            => /\ pc[c] = "idle"
               /\ ret[c] = [call |-> "query",
                            exc |-> [err |-> "MoiraError",
                                     code |-> replied[Len(replied)].status],
                            value |-> << >>]
               /\ Cardinality(FramesSince(calls[Len(calls)].from, MR_QUERY)) = 1

C10_Witness ==
    /\ op["c1"].name = "query" /\ pc["c1"] = "idle"
    /\ Len(replied) = 2
    /\ replied[1].status = MR_MORE_DATA
    /\ replied[2].status = MR_PERM
    /\ ret["c1"].exc = [err |-> "MoiraError", code |-> MR_PERM]
    /\ ret["c1"].value = << >>

\* the last call of caller c has returned or has raised MoiraError
EndedOrServerError(c) ==
    pc[c] = "idle" /\ ret[c].call # "none" /\ ret[c].exc.err \in {"none", "MoiraError"}

\* C11 as claimed: with one caller and a server that ends every answer with a
\* terminal frame, a call that sent a request has read its whole answer, the
\* terminal frame included, when it returns or raises MoiraError; hence while
\* the stream is open no request is sent when an earlier request's terminal
\* frame is still to be read.
C11_NoUnreadFrames ==
    /\ \A c \in Callers : EndedOrServerError(c) => outstanding = << >>
    /\ ~eof => Len(outstanding) <= 1

\* C20 as claimed: a status other than success and "version too low" in the
\* answer to a version-set request makes setVersion fail with ProtocolError.
C20_Original ==
    \A c \in Callers :
        (op[c].name = "setVersion" /\ LastSentIs(MR_SETVERSION) /\ replied # << >>
           /\ replied[1].status \notin {MR_SUCCESS, MR_VERSION_LOW})
            => ret[c].exc.err = "ProtocolError"

\* C20 as amended: when setVersion has sent its request and read a frame, it
\* returns normally if the frame's status is success or "version too low",
\* and raises MoiraError with the frame's status as code for every other
\* status ("more data" included); it reads one frame only.
C20_SetVersionStatus ==
    \A c \in Callers :
        (op[c].name = "setVersion" /\ LastSentIs(MR_SETVERSION) /\ replied # << >>)
            => /\ pc[c] = "idle"
               /\ Len(replied) = 1
               /\ IF replied[1].status \in {MR_SUCCESS, MR_VERSION_LOW}
                  THEN ret[c] = [call |-> "setVersion", exc |-> NoExc, value |-> << >>]
                  ELSE ret[c] = [call |-> "setVersion",
                                 exc |-> [err |-> "MoiraError", code |-> replied[1].status],
                                 value |-> << >>]

C20_Witness ==
    /\ op["c1"].name = "setVersion" /\ pc["c1"] = "idle"
    /\ LastSentIs(MR_SETVERSION)
    /\ Len(replied) = 1 /\ replied[1].status = MR_VERSION_LOW
    /\ ret["c1"].exc = NoExc

(***************************************************************************)
(* Claims about receiving (checked under SpecRecv).                        *)
(***************************************************************************)
\* the length the first four bytes of the stream declare
Declared == ReadU32(stream)

\* C18: recvPacket() hands nothing upward until it ends; it returns a packet
\* only when the declared number of bytes has arrived, the packet is made of
\* exactly those bytes and no byte after them has been taken from the
\* socket; and when the stream closes before the 4 length bytes, or before
\* the rest of the declared length, have arrived, in whatever pieces, it
\* raises ConnectionError.
C18_ExactOrFail ==
    /\ rphase \in {"length", "remainder"} => received = NoPacket
    /\ rphase = "remainder" => pos <= Declared
    /\ (rphase = "done" /\ received.err = "none")
          => /\ Len(stream) >= Declared
             /\ pos = Declared
             /\ received.raw_len = Declared
             /\ length_data \o recv_data = Take(stream, Declared)
    /\ (rphase = "done" /\ Len(stream) < 4) => received = ConnectionError
    /\ (rphase = "done" /\ Len(stream) >= 4 /\ Declared >= 4 /\ Len(stream) < Declared)
          => received = ConnectionError

C18_Witness ==
    /\ rphase = "done"
    /\ Len(stream) >= 4 /\ Declared = 24 /\ Len(stream) = 23
    /\ Len(recv_data) = 19
    /\ received = ConnectionError

\* C19 as claimed: whenever the declared length is one of 0..15,
\* recvPacket() raises ConnectionError.
C19_ShortLength ==
    (rphase = "done" /\ Len(stream) >= 4 /\ Declared < 16)
        => received = ConnectionError

(***************************************************************************)
(* Claims about lists (checked under SpecLists and SpecListsLive).         *)
(***************************************************************************)
\* the server gave the members of list n
Accessible(n) == answer[n].kind = "rows"

\* the server refused the members of list n for lack of permission
Refused(n) == answer[n].kind = "MoiraError" /\ answer[n].code = MR_PERM

\* the server answered the query of list n with a status other than that
FailedOtherwise(n) == answer[n].kind = "MoiraError" /\ answer[n].code # MR_PERM

\* the rows the server gave for the lists of S
RowsOf(S) == UNION { answer[n].rows : n \in { x \in S : Accessible(x) } }

\* the root and every list name met by going from the root through lists
\* whose members the server gave
RECURSIVE Reachable(_)
Reachable(S) ==
    LET T == S \cup { r[2] : r \in { x \in RowsOf(S) : x[1] = "LIST" } }
    IN  IF T = S THEN S ELSE Reachable(T)

\* the call has returned a result (to its caller or to ListTracer.__init__)
Returned == lphase \in {"returned", "tracer"} /\ ~args.server_side

\* C12: client-side getAllMembers with include_lists = False returns exactly
\* the non-list members that are explicit members of the root or of a list
\* reachable from it through accessible lists, each (type, name) once, and
\* the keys of the index it returns are exactly the root and the list names
\* reachable that way.
C12_ExpandAll ==
    (Returned /\ ~args.include_lists)
        => /\ Keys(members) = { r \in RowsOf(Reachable({RootName})) : r[1] # "LIST" }
           /\ Cardinality(members) = Cardinality(Keys(members))
           /\ DOMAIN known = Reachable({RootName})

C12_Witness ==
    /\ lphase = "returned" /\ ~args.include_lists /\ args.tags
    /\ answer["A"].rows = { << "LIST", "B" >>, << "USER", "D" >> }
    /\ answer["B"].rows = { << "LIST", "C" >>, << "USER", "D" >> }
    /\ answer["C"].rows = { << "USER", "D" >> }
    /\ Keys(members) = { << "USER", "D" >> }
    /\ Cardinality(members) = 1
    /\ DOMAIN known = {"A", "B", "C"}

\* while the for loop runs: the names to visit are names of this round that
\* are not known yet, the names visited are known, and there have been no
\* more rounds than there are known names
RoundShrinks ==
    lphase = "expanding"
        => /\ pending # {} /\ pending \subseteq to_expand
           /\ pending \cap DOMAIN known = {}
           /\ (to_expand \ pending) \subseteq DOMAIN known
           /\ current_depth <= Cardinality(DOMAIN known)

\* the loop has ended because no list name was left to discover
NothingNew ==
    Returned =>
        \A n \in DOMAIN known : \A m \in known[n].members :
            IsList(m) => m.name \in DOMAIN known

\* C13: for every graph, cyclic ones and lists that contain themselves
\* included, client-side getAllMembers ends: every round visits only names
\* that were not known, so each round leaves fewer unknown names, the loop
\* stops when no new name is discovered, and a call that has begun returns
\* or raises in the end.
C13_Terminates ==
    /\ [](RoundShrinks /\ NothingNew)
    /\ (lphase = "expanding" ~> lphase \in {"returned", "tracer", "raised"})

C13_Witness ==
    /\ Returned
    /\ answer["A"].rows = { << "LIST", "A" >>, << "LIST", "B" >> }
    /\ answer["B"].rows = { << "LIST", "A" >>, << "LIST", "B" >> }
    /\ DOMAIN known = {"A", "B"}
    /\ current_depth = 2

\* C14: when the member query of a list other than the root is refused for
\* lack of permission, the name is in denied (and known maps it to None); the
\* call does not raise for it; and the other names of the round and the
\* names of later rounds are expanded as without it, so a result is returned
\* whose index has every reachable name.
C14_DeniedContinues ==
    /\ \A n \in ListNames \ {RootName} :
          Refused(n) => /\ n \in denied
                        /\ n \in DOMAIN known /\ known[n].isNone
    /\ (lphase = "raised" /\ ~args.server_side) =>
          \/ lret.err = "UserError" /\ current_depth > max_depth
          \/ \E n \in ListNames : answer[n].kind = "ConnectionError" \/ FailedOtherwise(n)
          \/ Refused(RootName)
    /\ Returned => DOMAIN known = Reachable({RootName})

C14_Witness ==
    /\ lphase = "returned"
    /\ answer["A"].rows = { << "LIST", "B" >>, << "LIST", "C" >> }
    /\ Refused("B")
    /\ answer["C"].rows = { << "USER", "D" >> }
    /\ queries[2].name = "B"
    /\ denied = {"B"}
    /\ Keys(members) = { << "USER", "D" >> }

\* C15: when the member query of any list is answered with a status other
\* than permission denied, the call raises MoiraError with that status as
\* code, the name is not in denied, and nothing is returned.
C15_OtherErrorAborts ==
    \A n \in ListNames :
        FailedOtherwise(n)
            => /\ lphase = "raised"
               /\ lret = [err |-> "MoiraError", code |-> answer[n].code]
               /\ n \notin denied

C15_Witness ==
    /\ lphase = "raised"
    /\ answer["A"].rows = { << "LIST", "B" >>, << "LIST", "C" >> }
    /\ Accessible("C") /\ "C" \in DOMAIN known
    /\ FailedOtherwise("B")
    /\ lret = [err |-> "MoiraError", code |-> MR_VERSION_LOW]
    /\ denied = {}

\* the lists that are explicit members of list g, as the tracer knows them
SublistsOf(g) ==
    IF g \in DOMAIN known /\ ~known[g].isNone
    THEN { m.name : m \in { x \in known[g].members : IsList(x) } }
    ELSE {}

\* every sequence of pairwise distinct list names
DistinctWays == UNION { Orders(S) : S \in SUBSET ListNames \ {{}} }

\* the chains root = g0, g1, ..., gk of pairwise distinct names with each
\* g(i+1) an explicit member of g(i) and key an explicit member of gk
Chains(key) ==
    { w \in DistinctWays :
        /\ w[1] = RootName
        /\ \A i \in 1..(Len(w) - 1) : w[i+1] \in SublistsOf(w[i])
        /\ w[Len(w)] \in DOMAIN known
        /\ ~known[w[Len(w)]].isNone
        /\ key \in Keys(known[w[Len(w)]].members) }

\* trace() has been called on the tracer
Traced == lphase = "tracer" /\ traced # << >>

\* C16: trace(m) on a tracer of root R returns, for every chain R = g0, ...,
\* gk of pairwise distinct names in which each g(i+1) is an explicit member of
\* g(i) and m one of gk, the pathway (g0, ..., gk) once, and nothing else
\* (when the chains are no more than max_pathways).
C16_TracePathways ==
    (Traced /\ Cardinality(Chains(traced)) <= max_pathways)
        => /\ pathways.err = "none"
           /\ { pathways.out[i] : i \in 1..Len(pathways.out) } = Chains(traced)
           /\ Len(pathways.out) = Cardinality(Chains(traced))

C16_Witness ==
    /\ Traced
    /\ traced = << "USER", "D" >>
    /\ Keys(known["A"].members) = { << "LIST", "B" >>, << "LIST", "C" >> }
    /\ pathways.err = "none"
    /\ { pathways.out[i] : i \in 1..Len(pathways.out) } = { << "A", "B" >>, << "A", "C" >> }

\* C17: trace(m) raises UserError exactly when m has more chains than
\* max_pathways, and otherwise returns at most max_pathways pathways; it
\* fails in no other way.
C17_PathwayLimit ==
    Traced =>
        /\ pathways.err \in {"none", "UserError"}
        /\ pathways.err = "UserError" <=> Cardinality(Chains(traced)) > max_pathways
        /\ pathways.err = "none" => Len(pathways.out) <= max_pathways

C17_Witness ==
    /\ Traced
    /\ max_pathways = 1
    /\ Cardinality(Chains(traced)) = 2
    /\ pathways = UserError

\* C22: __init__ sends the challenge first, the outage request second (after
\* the fixed response has come) and the version-set request third; a query
\* or authentication frame is sent only on a ready object, after these
\* three; an object is ready only after all three were sent and answered;
\* and when __init__ has raised there is no object and no call on it.
C22_StartupOrder ==
    /\ Len(sent) >= 1 => sent[1] = MOIRA_PROTOCOL_CHALLENGE
    /\ Len(sent) >= 2 => /\ sent[2] = Build(MR_MOTD, << >>)
                         /\ response = MOIRA_PROTOCOL_RESPONSE
    /\ Len(sent) >= 3 => SentOpcode(sent[3]) = MR_SETVERSION
    /\ \A k \in 2..Len(sent) :
          SentOpcode(sent[k]) \in {MR_QUERY, MR_KRB5_AUTH} => (k >= 4 /\ conn = "ready")
    /\ conn = "ready" => Len(sent) >= 3
    /\ conn = "opening" => (calls = << >> /\ Len(sent) <= 3)
    /\ conn = "failed" => (calls = << >> /\ Len(sent) <= 3 /\ ret["c1"].exc # NoExc)

C22_Witness ==
    /\ conn = "ready"
    /\ Len(sent) = 4
    /\ SentOpcode(sent[3]) = MR_SETVERSION
    /\ SentOpcode(sent[4]) = MR_KRB5_AUTH

\* C23 as claimed: after a call on the object has failed with ConnectionError,
\* or setVersion has failed on an unexpected status, the next call sends no
\* frame and returns no result.
C23_DeadAfterFailure ==
    \A i \in 2..Len(calls) :
        ( \/ calls[i].prev = "ConnectionError"
          \/ calls[i-1].name = "setVersion" /\ calls[i].prev = "MoiraError" )
            => /\ SentBy(i) = 0
               /\ i = Len(calls) =>
                     ~(pc[calls[i].by] = "idle" /\ ret[calls[i].by].call # "none"
                         /\ ret[calls[i].by].exc = NoExc)

\* C24 as claimed: once the object is ready, self.version is the version of
\* the last version-set request that was accepted: the default version after
\* __init__, and v after a query(..., version = v) that returned or raised
\* MoiraError from the query itself.
C24_VersionState ==
    \A c \in Callers :
        /\ (conn = "ready" /\ op[c].name = "init") => version = op[c].version
        /\ (op[c].name = "query" /\ op[c].version # 0 /\ EndedOrServerError(c)
              /\ LastSentIs(MR_QUERY))
              => version = op[c].version

\* C21: getAllMembers(server_side = True, tags = True) raises UserError and
\* no call of client.query has been made (so no query and no version-set
\* frame has gone out).
C21_ServerSideTags ==
    (args.server_side /\ args.tags /\ lphase # "idle")
        => /\ lphase = "raised"
           /\ lret = [err |-> "UserError"]
           /\ queries = << >>

C21_Witness ==
    /\ args.server_side
    /\ args.tags
    /\ lphase = "raised"
    /\ lret = [err |-> "UserError"]
    /\ queries = << >>

\* the names of the lists whose members have been asked for, in order
QueriedNames == [i \in 1..Len(queries) |-> queries[i].name]

\* C25: within one client-side getAllMembers no list name is asked for twice,
\* whatever the graph: the names queried are pairwise distinct, each is asked
\* with an explicit-membership query, and every key of known (the root, an
\* expanded list, a denied list) is among them.
C25_QueriedOnce ==
    ~args.server_side
        => /\ \A i, j \in 1..Len(queries) :
                 QueriedNames[i] = QueriedNames[j] => i = j
           /\ \A i \in 1..Len(queries) :
                 queries[i].query \in {"get_members_of_list", "get_tagged_members_of_list"}
           /\ DOMAIN known \subseteq { QueriedNames[i] : i \in 1..Len(queries) }

C25_Witness ==
    /\ Returned
    /\ answer["A"].rows = { << "LIST", "B" >>, << "LIST", "C" >> }
    /\ Refused("B")
    /\ answer["C"].rows = { << "LIST", "A" >>, << "LIST", "B" >> }
    /\ Len(queries) = 3

\* C26 (as stated): the depth ceiling counts only rounds that have a list to
\* expand, so getAllMembers raises the depth UserError only when a list
\* name is still left to expand.
C26_CeilingCountsWork ==
    (~args.server_side /\ lphase = "raised" /\ lret = [err |-> "UserError"])
        => { m.name : m \in { x \in members : IsList(x) } } \ DOMAIN known # {}

\* C27: client-side getAllMembers with include_lists = False returns members
\* of which none is a list; with include_lists = True the members are all the
\* rows met, the lists (denied ones too) among them; and denied and known
\* are in both cases what the server's answers alone determine: the refused
\* names reached, and every name reached with its explicit members or None.
C27_IncludeLists ==
    Returned =>
        /\ ~args.include_lists =>
              /\ \A m \in members : m.mtype # "LIST"
              /\ Keys(members) =
                    { r \in RowsOf(Reachable({RootName})) : r[1] # "LIST" }
        /\ args.include_lists =>
              Keys(members) = RowsOf(Reachable({RootName}))
        /\ denied = { n \in Reachable({RootName}) : Refused(n) }
        /\ DOMAIN known = Reachable({RootName})
        /\ \A n \in DOMAIN known :
              /\ known[n].isNone <=> Refused(n)
              /\ ~known[n].isNone => Keys(known[n].members) = answer[n].rows

C27_Witness ==
    /\ Returned
    /\ args.include_lists
    /\ denied = {"B"}
    /\ Keys(members) = { << "LIST", "B" >>, << "USER", "D" >> }

\* the (type, name) pairs of the member sets of the keys of known that are
\* not denied
UnionOfKnown ==
    UNION { Keys(known[n].members) : n \in DOMAIN known \ denied }

\* C28: after every turn of the loops of client-side getAllMembers and in
\* the result: denied is a subset of the keys of known, known[n] is None
\* exactly for the n in denied, and the running members are the union of the
\* member sets of the keys of known that are not denied, each (type, name)
\* once (the result being that union without its lists when include_lists is
\* False).
C28_LoopInvariant ==
    (lphase = "expanding" \/ Returned) =>
        /\ denied \subseteq DOMAIN known
        /\ \A n \in DOMAIN known : known[n].isNone <=> n \in denied
        /\ \A n \in denied : known[n].members = {}
        /\ Cardinality(members) = Cardinality(Keys(members))
        /\ (lphase = "expanding" \/ args.include_lists)
              => Keys(members) = UnionOfKnown
        /\ (Returned /\ ~args.include_lists)
              => Keys(members) = { r \in UnionOfKnown : r[1] # "LIST" }

C28_Witness ==
    /\ Returned
    /\ args.include_lists
    /\ current_depth = 2
    /\ denied = {"B"}
    /\ DOMAIN known = {"A", "B", "C"}
    /\ Keys(known["A"].members) = { << "LIST", "B" >>, << "LIST", "C" >> }
    /\ Keys(members) = { << "LIST", "B" >>, << "LIST", "C" >>, << "USER", "D" >> }

\* C29: for every graph trace(m) ends with a result, and in a result no
\* pathway has a list name twice and the root is the first element of every
\* pathway and no other element of it.
C29_TraceEnds ==
    Traced =>
        /\ pathways # NoPacket
        /\ pathways.err = "none" =>
              \A i \in 1..Len(pathways.out) :
                 LET p == pathways.out[i]
                 IN  /\ Len(p) >= 1
                     /\ \A a, b \in 1..Len(p) : p[a] = p[b] => a = b
                     /\ \A a \in 1..Len(p) : p[a] = RootName <=> a = 1

C29_Witness ==
    /\ Traced
    /\ traced = << "USER", "D" >>
    /\ answer["A"].rows = { << "LIST", "B" >> }
    /\ answer["B"].rows = { << "LIST", "C" >>, << "LIST", "A" >> }
    /\ answer["C"].rows = { << "LIST", "B" >>, << "USER", "D" >> }
    /\ pathways = [err |-> "none", out |-> << << "A", "B", "C" >> >>]

\* C30: when the server refuses the member query of the root for lack of
\* permission, client-side getAllMembers (also when called to make a tracer)
\* raises that MoiraError: nothing is returned, no tracer is made, and the
\* root is never in denied.
C30_RootRefused ==
    /\ ~args.server_side => RootName \notin denied
    /\ (~args.server_side /\ Refused(RootName))
          => /\ lphase = "raised"
             /\ lret.err = "MoiraError" /\ lret.code = MR_PERM
             /\ Len(queries) = 1
             /\ members = {} /\ denied = {} /\ known = << >>
             /\ inverse = << >> /\ inverseLists = << >>

C30_Witness ==
    /\ args.tracer
    /\ Refused(RootName)
    /\ lphase = "raised"
    /\ lret.err = "MoiraError" /\ lret.code = MR_PERM
    /\ inverse = << >>

\* walking argc fields of body by their declared lengths: every field's
\* four-byte prefix and padded extent lie within the bytes that remain
RECURSIVE ExtentsFit(_, _)
ExtentsFit(body, argc) ==
    IF argc = 0 THEN TRUE
    ELSE /\ Len(body) >= 4
         /\ LET n == ReadU32(body)
                e == ((n + 3) \div 4) * 4
            IN  /\ 4 + e <= Len(body)
                /\ ExtentsFit(Drop(body, 4 + e), argc - 1)

\* C31 (as stated): parse fails whenever a field's declared length, rounded
\* up to a multiple of four, goes past the bytes that remain; a packet it
\* returns has every field built from its whole padded extent.
C31_PaddedExtentChecked ==
    (cphase = "parsed" /\ parsed.err = "none")
        => ExtentsFit(Drop(raw, 16), ReadU32(SubSeq(raw, 13, 16)))

\* caller c has been handed a frame that answered a request of the other
\* caller
HandedOthers(c) == handed[c] \notin {"none", c}

\* C32 (second half, as stated): when the calls on the object are serialized,
\* no caller is ever handed a frame that answers another caller's request.
C32_SerialNoCross == \A c \in Callers : ~HandedOthers(c)

\* C32 (first half): without mutual exclusion a caller's query returns rows
\* the server wrote for the other caller's query
C32_CrossReached ==
    \E c \in Callers :
        /\ HandedOthers(c)
        /\ pc[c] = "idle" /\ ret[c].call = "query" /\ ret[c].exc = NoExc
        /\ ret[c].value # << >>

\* the member objects made of the rows the server gave for list n, tagged
\* when the tagged query was used
OwnMembers(n, tagged) ==
    { [mtype |-> r[1], name |-> r[2], tag |-> IF tagged THEN "t" ELSE "none"] :
      r \in answer[n].rows }

\* C33: client-side getAllMembers leaves the root's entry of known as it made
\* it: during the loop and in the result known[root] is the root's explicit
\* members as its own query gave them (not the merged members), and known[g]
\* of every accessible list g is the explicit members of g.
C33_RootEntryKept ==
    (lphase = "expanding" \/ Returned) =>
        /\ known[RootName] = [isNone |-> FALSE, members |-> OwnMembers(RootName, args.tags)]
        /\ \A g \in DOMAIN known \ {RootName} :
              Accessible(g) =>
                 known[g] = [isNone |-> FALSE, members |-> OwnMembers(g, FALSE)]

C33_Witness ==
    /\ Returned
    /\ args.include_lists
    /\ answer["A"].rows = { << "LIST", "B" >> }
    /\ answer["B"].rows = { << "USER", "D" >> }
    /\ Keys(members) = { << "LIST", "B" >>, << "USER", "D" >> }
    /\ Keys(known["A"].members) = { << "LIST", "B" >> }

\* C34: in a tracer every key of known but the root is a key of inverseLists,
\* every list named in inverse is a key of known with known members, and
\* trace never ends in a KeyError, denied lists or not.
C34_NoMissingKey ==
    /\ lphase = "tracer" =>
          /\ DOMAIN known \ {RootName} \subseteq DOMAIN inverseLists
          /\ \A key \in DOMAIN inverse : \A i \in 1..Len(inverse[key]) :
                /\ inverse[key][i] \in DOMAIN known
                /\ ~known[inverse[key][i]].isNone
    /\ Traced => pathways.err # "KeyError"

C34_Witness ==
    /\ Traced
    /\ denied = {"C"}
    /\ traced = << "LIST", "C" >>
    /\ answer["A"].rows = { << "LIST", "B" >> }
    /\ pathways = [err |-> "none", out |-> << << "A", "B" >> >>]

\* C35: in client-side getAllMembers the root is asked with the tagged query
\* exactly when tags is set and every other list with the untagged query; in
\* the result with tags set a member has the tag of the root's row when the
\* root has it as an explicit member (also when a nested list has it too) and
\* no tag otherwise.
C35_TagsOfRootOnly ==
    /\ (~args.server_side /\ queries # << >>) =>
          /\ queries[1].name = RootName
          /\ queries[1].query = IF args.tags THEN "get_tagged_members_of_list"
                                ELSE "get_members_of_list"
          /\ \A i \in 2..Len(queries) : queries[i].query = "get_members_of_list"
    /\ Returned =>
          \A m \in members :
             m.tag = IF args.tags /\ << m.mtype, m.name >> \in answer[RootName].rows
                     THEN "t" ELSE "none"

C35_Witness ==
    /\ Returned
    /\ args.tags /\ args.include_lists
    /\ answer["B"].rows = { << "LIST", "C" >>, << "USER", "D" >> }
    /\ members = { [mtype |-> "USER", name |-> "D", tag |-> "t"],
                   [mtype |-> "LIST", name |-> "B", tag |-> "t"],
                   [mtype |-> "LIST", name |-> "C", tag |-> "none"] }

=============================================================================
